---- MODULE Spec2Model ----
(***************************************************************************)
(* Model of deepchem/utils/dft_utils/grid/lebedev_grid.py:                 *)
(*   LebedevLoader.load        (the class-level cache of angular tables),  *)
(*   LebedevGrid.__init__      (radial grid x angular table),              *)
(*   TruncatedLebedevGrid.__init__ (concatenation of several grids).       *)
(*                                                                         *)
(* Each Python thread is a process whose position pc[t] is the source line *)
(* it is about to execute.  The only shared mutable state is               *)
(* LebedevLoader.caches.  Arithmetic is exact: radii, volumes and weights  *)
(* are integers; an angle is a pair <<n, k>> standing for n * (pi/180)^k,  *)
(* so <<90, 0>> is the number 90 (a file's degrees) and <<90, 1>> is pi/2. *)
(* dtype and device are carried through unchanged by the code and are not  *)
(* modelled.                                                               *)
(***************************************************************************)
EXTENDS Integers, Sequences, FiniteSets, TLC

\* ------------------------------------------------------------------ bounds
NThreads == 2       \* threads that may call into the module concurrently
MaxList == 2        \* longest radgrids / precs list given to TruncatedLebedevGrid
MaxNr == 2          \* radii of the larger radial grid
Rows3 == 2          \* rows of the table stored for precision 3
Rows5 == 3          \* rows of the table stored for precision 5

\* ------------------------------------------------------- program constants
MinPrec == 3
MaxPrec == 131
ExNr == 100         \* RadialGrid(100, ...) of the docstring examples
ExRows3 == 6        \* LebedevLoader.load(3).shape == (6, 3)
ExRows5 == 14       \* (2000 - 100 * 6) / 100 rows for precision 5

Threads == 1..NThreads

\* the one thread of single-threaded use
MainThreads == {t \in Threads : \A u \in Threads : t <= u}

\* the precisions callers pass: below the range, valid and stored (3, 5), even,
\* valid but without a stored table (33), above the range
Precs == {1, 3, 4, 5, 33, 133}

\* the precisions of concurrent loads, and of the lists of a truncated grid
LoadPrecs == {3, 5, 33}
ListPrecs == {3, 4, 5, 33}

\* -------------------------------------------------------------- arithmetic
\* a real number is coef * (product of terms): an exact integer has no terms,
\* and a sine or cosine that is no integer is kept as an uninterpreted term
Num(n) == [coef |-> n, terms |-> << >>]

\* x * (pi / 180) applied to an angle: zero stays zero
Deg2Rad(a) == IF a[1] = 0 THEN a ELSE <<a[1], a[2] + 1>>

\* torch.sin / torch.cos: exact on the multiples of pi/2, a term elsewhere
Sin(a) ==
    IF a[1] = 0 THEN Num(0)
    ELSE IF a[2] = 1 /\ a[1] % 90 = 0
         THEN CASE a[1] % 360 = 0 -> Num(0)
                [] a[1] % 360 = 90 -> Num(1)
                [] a[1] % 360 = 180 -> Num(0)
                [] a[1] % 360 = 270 -> Num(-1)
         ELSE [coef |-> 1, terms |-> << <<"sin", a>> >>]

Cos(a) ==
    IF a[1] = 0 THEN Num(1)
    ELSE IF a[2] = 1 /\ a[1] % 90 = 0
         THEN CASE a[1] % 360 = 0 -> Num(1)
                [] a[1] % 360 = 90 -> Num(0)
                [] a[1] % 360 = 180 -> Num(-1)
                [] a[1] % 360 = 270 -> Num(0)
         ELSE [coef |-> 1, terms |-> << <<"cos", a>> >>]

Mul(x, y) ==
    IF x.coef * y.coef = 0 THEN Num(0)
    ELSE [coef |-> x.coef * y.coef, terms |-> x.terms \o y.terms]

\* ------------------------------------------------------------------ tensors
\* column c of a table, a one-dimensional tensor
Column(rows, c) == [j \in 1..Len(rows) |-> rows[j][c]]

\* elementwise torch.sin / torch.cos of a one-dimensional tensor
SinAll(v) == [j \in 1..Len(v) |-> Sin(v[j])]
CosAll(v) == [j \in 1..Len(v) |-> Cos(v[j])]

\* Tensor.unsqueeze(-1): one more axis of size 1
Unsqueeze(v) == [i \in 1..Len(v) |-> <<v[i]>>]

\* torch.tensor(...) of a sequence of numbers: floating-point entries
AsTensor(v) == [i \in 1..Len(v) |-> Num(v[i])]

\* (nr, 1) * (n,) broadcasts to the (nr, n) matrix of products
Broadcast(col, row) ==
    [i \in 1..Len(col) |-> [j \in 1..Len(row) |-> Mul(col[i][1], row[j])]]

\* (nr, n) * (n,) multiplies every row of the matrix elementwise
MulRow(M, row) ==
    [i \in 1..Len(M) |-> [j \in 1..Len(row) |-> Mul(M[i][j], row[j])]]

\* a flattening that walks the matrix column by column
ViewColumnMajor(M) ==
    IF Len(M) = 0 THEN << >>
    ELSE LET nr == Len(M)
             nc == Len(M[1])
         IN  [k \in 1..(nr * nc) |-> M[((k - 1) % nr) + 1][((k - 1) \div nr) + 1]]

\* Tensor.view(-1): the contiguous (row-major) flattening
View(M) ==
    IF Len(M) = 0 THEN << >>
    ELSE LET nc == Len(M[1])
         IN  [k \in 1..(Len(M) * nc) |-> M[((k - 1) \div nc) + 1][((k - 1) % nc) + 1]]

\* torch.cat((x, y, z), dim=-1) of three (N, 1) tensors
CatCols(x, y, z) == [k \in 1..Len(x) |-> <<x[k], y[k], z[k]>>]

RECURSIVE CatReversed(_)
CatReversed(parts) ==
    IF Len(parts) = 0 THEN << >>
    ELSE CatReversed(Tail(parts)) \o Head(parts)

CatFirst(parts) == IF Len(parts) = 0 THEN << >> ELSE Head(parts)

\* torch.cat(parts, dim=0)
RECURSIVE Cat(_)
Cat(parts) ==
    IF Len(parts) = 0 THEN << >>
    ELSE Head(parts) \o Cat(Tail(parts))

\* ------------------------------------------------------------ environment
\* "%03d" % prec, for prec >= 0: the decimal digits, zero-padded to width 3
RECURSIVE Digits(_)
Digits(n) == IF n < 10 THEN <<n>> ELSE Append(Digits(n \div 10), n % 10)

Fmt03d(prec) ==
    LET d == Digits(prec)
    IN  IF Len(d) >= 3 THEN d
        ELSE [i \in 1..3 |-> IF i <= 3 - Len(d) THEN 0 ELSE d[i - (3 - Len(d))]]

\* a stored table of n rows (angle1 in degrees, angle2 in degrees, weight)
MkTable(n, s) == [j \in 1..n |-> << <<90 * (j + s), 0>>, <<90 * j, 0>>, j + s >>]

\* the lebedevquad directory: file code -> rows
SmallFiles == (Fmt03d(3) :> MkTable(Rows3, 0)) @@ (Fmt03d(5) :> MkTable(Rows5, 1))

ExampleFiles == (Fmt03d(3) :> MkTable(ExRows3, 0)) @@ (Fmt03d(5) :> MkTable(ExRows5, 1))

\* a radial grid as LebedevGrid consumes it: the nr radii of get_rgrid(), the
\* nr volumes of get_dvolume(), and coord_type
MkRadial(n, a, ct) ==
    [rgrid |-> [i \in 1..n |-> a * i],
     dvolume |-> [i \in 1..n |-> 2 * i + a],
     coord_type |-> ct]

GridA == MkRadial(MaxNr, 1, "radial")
GridB == MkRadial(1, 3, "radial")
GridC == MkRadial(1, 2, "cart")
RadGrids == {GridA, GridB, GridC}

ExGrid == MkRadial(ExNr, 1, "radial")

SeqsUpTo(S, n) == UNION {[1..m -> S] : m \in 0..n}

\* ------------------------------------------------------------------- state
VARIABLES
    files,      \* the stored tables: file code -> rows in degrees (read only)
    caches,     \* LebedevLoader.caches: prec -> array
    reads,      \* prec -> number of np.loadtxt calls made for it (instrumentation)
    writes,     \* prec -> number of assignments to caches[prec] (instrumentation)
    op,         \* op[t]: the top-level call thread t is in, or made last
    pc,         \* pc[t]: the source line thread t executes next; "done" when the
                \* call has returned or raised; "idle" between calls
    idx,        \* idx[t]: position of the list comprehension of line 231
    lebedevs,   \* lebedevs[t]: the LebedevGrids built so far by the comprehension
    dsets,      \* dsets[t]: the local lebedev_dsets of load
    ret,        \* ret[t]: what load returned to LebedevGrid.__init__
    result,     \* result[t]: what the top-level call returned or raised
    snap,       \* snap[t]: caches as the call began (instrumentation)
    retry       \* retry[t]: the call asks again for the precision whose missing
                \* file made the thread's previous call fail (instrumentation)

shared == <<caches, reads, writes>>
vars == <<files, caches, reads, writes, op, pc, idx, lebedevs, dsets, ret, result,
          snap, retry>>

\* an array is the sequence of its rows
NoTable == << >>
NoValue == [none |-> TRUE]
NoError == [type |-> "none", line |-> 0, arg |-> << >>]
NoOp == [kind |-> "none", radgrids |-> << >>, precs |-> << >>]
NoResult == [status |-> "none", error |-> NoError, value |-> NoValue]

AssertionError(line, arg) == [type |-> "AssertionError", line |-> line, arg |-> arg]

\* dict helpers
Count(f, k) == IF k \in DOMAIN f THEN f[k] ELSE 0
Put(f, k, v) == [q \in DOMAIN f \cup {k} |-> IF q = k THEN v ELSE f[q]]

CurPrec(t) == op[t].precs[idx[t]]
CurGrid(t) == op[t].radgrids[idx[t]]

\* lebedev_dsets[:, :2] *= np.pi / 180, in place
ToRadians(rows) ==
    [j \in 1..Len(rows) |-> <<Deg2Rad(rows[j][1]), Deg2Rad(rows[j][2]), rows[j][3]>>]

\* a check that forgets the parity
PrecInRange(prec) == MinPrec <= prec /\ prec <= MaxPrec

\* prec % 2 == 1 and 3 <= prec <= 131

ValidPrec(prec) == (prec % 2 = 1) /\ (MinPrec <= prec /\ prec <= MaxPrec)

\* lines 98-116: the points and the weights of one LebedevGrid
BuildGrid(rows, radgrid) ==
    LET wphitheta == AsTensor(Column(rows, 3))
        phi == Column(rows, 1)
        theta == Column(rows, 2)
        r == Unsqueeze(AsTensor(radgrid.rgrid))
        rsintheta == Broadcast(r, SinAll(theta))
        x == View(MulRow(rsintheta, CosAll(phi)))
        y == View(MulRow(rsintheta, SinAll(phi)))
        z == View(Broadcast(r, CosAll(theta)))
        dvol_rad == Unsqueeze(AsTensor(radgrid.dvolume))
    IN  [xyz |-> CatCols(x, y, z),
         dvolume |-> View(Broadcast(dvol_rad, wphitheta))]

\* lines 235-244: the composite of the grids of the comprehension
BuildTruncated(grids) ==
    [lebedevs |-> grids,
     xyz |-> Cat([i \in 1..Len(grids) |-> grids[i].xyz]),
     dvolume |-> Cat([i \in 1..Len(grids) |-> grids[i].dvolume])]

\* ----------------------------------------------------------------- control
\* a call begins: fresh frame, and the instrumentation's snapshot
Enter(t, o, line) ==
    /\ pc[t] = "idle"
    /\ op' = [op EXCEPT ![t] = o]
    /\ pc' = [pc EXCEPT ![t] = line]
    /\ idx' = [idx EXCEPT ![t] = 1]
    /\ lebedevs' = [lebedevs EXCEPT ![t] = << >>]
    /\ dsets' = [dsets EXCEPT ![t] = NoTable]
    /\ ret' = [ret EXCEPT ![t] = NoTable]
    /\ result' = [result EXCEPT ![t] = NoResult]
    /\ snap' = [snap EXCEPT ![t] = caches]
    /\ retry' = [retry EXCEPT ![t] =
            /\ Len(o.precs) > 0
            /\ result[t].error = AssertionError(44, Fmt03d(o.precs[1]))]
    /\ UNCHANGED <<files, shared>>

\* the top-level call returns v; its frames are gone
Return(t, v) ==
    /\ pc' = [pc EXCEPT ![t] = "done"]
    /\ result' = [result EXCEPT ![t] = [status |-> "ok", error |-> NoError, value |-> v]]
    /\ idx' = [idx EXCEPT ![t] = 0]
    /\ lebedevs' = [lebedevs EXCEPT ![t] = << >>]
    /\ dsets' = [dsets EXCEPT ![t] = NoTable]
    /\ ret' = [ret EXCEPT ![t] = NoTable]
    /\ UNCHANGED <<op, snap, retry>>

\* a handler that turns a constituent's failure into a shorter composite
RaiseKeepingBuilt(t, e) ==
    /\ pc' = [pc EXCEPT ![t] = "done"]
    /\ result' = [result EXCEPT ![t] =
            IF op[t].kind = "trunc" /\ Len(lebedevs[t]) > 0
            THEN [status |-> "ok", error |-> NoError, value |-> BuildTruncated(lebedevs[t])]
            ELSE [status |-> "raised", error |-> e, value |-> NoValue]]
    /\ idx' = [idx EXCEPT ![t] = 0]
    /\ lebedevs' = [lebedevs EXCEPT ![t] = << >>]
    /\ dsets' = [dsets EXCEPT ![t] = NoTable]
    /\ ret' = [ret EXCEPT ![t] = NoTable]
    /\ UNCHANGED <<op, snap, retry>>

\* a failed assert: nothing in this module catches the AssertionError, so it
\* leaves load, LebedevGrid.__init__ and the comprehension of line 231 alike,
\* and the top-level call raises it; no object is returned
Raise(t, e) ==
    /\ pc' = [pc EXCEPT ![t] = "done"]
    /\ result' = [result EXCEPT ![t] = [status |-> "raised", error |-> e, value |-> NoValue]]
    /\ idx' = [idx EXCEPT ![t] = 0]
    /\ lebedevs' = [lebedevs EXCEPT ![t] = << >>]
    /\ dsets' = [dsets EXCEPT ![t] = NoTable]
    /\ ret' = [ret EXCEPT ![t] = NoTable]
    /\ UNCHANGED <<op, snap, retry>>

\* the caller lets go of what the call returned and keeps, at most, the
\* exception it caught
Discard(t) ==
    /\ pc[t] = "done"
    /\ pc' = [pc EXCEPT ![t] = "idle"]
    /\ op' = [op EXCEPT ![t] = NoOp]
    /\ result' = [result EXCEPT ![t] = [status |-> "none", error |-> @.error, value |-> NoValue]]
    /\ snap' = [snap EXCEPT ![t] = << >>]
    /\ retry' = [retry EXCEPT ![t] = FALSE]
    /\ UNCHANGED <<files, shared, idx, lebedevs, dsets, ret>>

Goto(t, line) ==
    /\ pc' = [pc EXCEPT ![t] = line]
    /\ UNCHANGED <<op, idx, lebedevs, dsets, ret, result, snap, retry>>

\* ----------------------------------------------------------- the top level
\* LebedevLoader.load(prec)
CallLoad(t, P) ==
    \E prec \in P :
        Enter(t, [kind |-> "load", radgrids |-> << >>, precs |-> <<prec>>], "L39")

\* LebedevGrid(radgrid, prec)
CallLebedevGrid(t, G, P) ==
    \E radgrid \in G, prec \in P :
        Enter(t, [kind |-> "grid", radgrids |-> <<radgrid>>, precs |-> <<prec>>], "L90")

\* TruncatedLebedevGrid(radgrids, precs)
CallTruncated(t, GS, PS) ==
    \E radgrids \in GS, precs \in PS :
        Enter(t, [kind |-> "trunc", radgrids |-> radgrids, precs |-> precs], "L229")

\* ------------------------------------------------------ LebedevLoader.load
\* a loader that never finds its cache populated
CheckCacheAlwaysMiss(t) ==
    /\ pc[t] = "L39"
    /\ Goto(t, "L44")
    /\ UNCHANGED <<files, shared>>

\* line 39: if prec not in cls.caches
CheckCache(t) ==
    /\ pc[t] = "L39"
    /\ IF CurPrec(t) \in DOMAIN caches THEN Goto(t, "L52") ELSE Goto(t, "L44")
    /\ UNCHANGED <<files, shared>>

\* a loader that remembers a missing file as an empty cache entry
CheckExistsRemembering(t) ==
    /\ pc[t] = "L44"
    /\ IF Fmt03d(CurPrec(t)) \in DOMAIN files
       THEN Goto(t, "L46") /\ UNCHANGED caches
       ELSE /\ Raise(t, AssertionError(44, Fmt03d(CurPrec(t))))
            /\ caches' = Put(caches, CurPrec(t), NoTable)
    /\ UNCHANGED <<files, reads, writes>>

\* lines 41-45: assert os.path.exists(dset_path)
CheckExists(t) ==
    /\ pc[t] = "L44"
    /\ IF Fmt03d(CurPrec(t)) \in DOMAIN files
       THEN Goto(t, "L46")
       ELSE Raise(t, AssertionError(44, Fmt03d(CurPrec(t))))
    /\ UNCHANGED <<files, shared>>

\* line 46: lebedev_dsets = np.loadtxt(dset_path), a fresh array
LoadTxt(t) ==
    /\ pc[t] = "L46"
    /\ dsets' = [dsets EXCEPT ![t] = files[Fmt03d(CurPrec(t))]]
    /\ reads' = Put(reads, CurPrec(t), Count(reads, CurPrec(t)) + 1)
    /\ pc' = [pc EXCEPT ![t] = "L47"]
    /\ UNCHANGED <<files, caches, writes, op, idx, lebedevs, ret, result, snap, retry>>

\* lines 47-48: the first two columns, degrees to radians
Convert(t) ==
    /\ pc[t] = "L47"
    /\ dsets' = [dsets EXCEPT ![t] = ToRadians(@)]
    /\ pc' = [pc EXCEPT ![t] = "L50"]
    /\ UNCHANGED <<files, shared, op, idx, lebedevs, ret, result, snap, retry>>

\* line 50: cls.caches[prec] = lebedev_dsets
Store(t) ==
    /\ pc[t] = "L50"
    /\ caches' = Put(caches, CurPrec(t), dsets[t])
    /\ writes' = Put(writes, CurPrec(t), Count(writes, CurPrec(t)) + 1)
    /\ Goto(t, "L52")
    /\ UNCHANGED <<files, reads>>

\* a loader whose conversion sits outside the if and runs on every call
ReturnCachedConverting(t) ==
    /\ pc[t] = "L52"
    /\ caches' = Put(caches, CurPrec(t), ToRadians(caches[CurPrec(t)]))
    /\ IF op[t].kind = "load"
       THEN Return(t, ToRadians(caches[CurPrec(t)]))
       ELSE /\ ret' = [ret EXCEPT ![t] = ToRadians(caches[CurPrec(t)])]
            /\ dsets' = [dsets EXCEPT ![t] = NoTable]
            /\ pc' = [pc EXCEPT ![t] = "L95"]
            /\ UNCHANGED <<op, idx, lebedevs, result, snap, retry>>
    /\ UNCHANGED <<files, reads, writes>>

\* line 52: return cls.caches[prec], to the caller of load or into line 95
ReturnCached(t) ==
    /\ pc[t] = "L52"
    /\ IF op[t].kind = "load"
       THEN Return(t, caches[CurPrec(t)])
       ELSE /\ ret' = [ret EXCEPT ![t] = caches[CurPrec(t)]]
            /\ dsets' = [dsets EXCEPT ![t] = NoTable]
            /\ pc' = [pc EXCEPT ![t] = "L95"]
            /\ UNCHANGED <<op, idx, lebedevs, result, snap, retry>>
    /\ UNCHANGED <<files, shared>>

\* ---------------------------------------------------- LebedevGrid.__init__
\* a constructor that checks the radial grid together with the precision
CheckPrecAndCoord(t) ==
    /\ pc[t] = "L90"
    /\ IF ~ValidPrec(CurPrec(t)) THEN Raise(t, AssertionError(90, << >>))
       ELSE IF CurGrid(t).coord_type # "radial" THEN Raise(t, AssertionError(103, << >>))
       ELSE Goto(t, "L39")
    /\ UNCHANGED <<files, shared>>

\* lines 90-92: assert (prec % 2 == 1) and (3 <= prec <= 131)
CheckPrec(t) ==
    /\ pc[t] = "L90"
    /\ IF ValidPrec(CurPrec(t)) THEN Goto(t, "L39")
       ELSE Raise(t, AssertionError(90, << >>))
    /\ UNCHANGED <<files, shared>>

\* lines 95-116, load having returned: the tensor copy of the table, the
\* assert on coord_type, and the points and weights
Combine(t) ==
    /\ pc[t] = "L95"
    /\ IF CurGrid(t).coord_type # "radial" THEN Raise(t, AssertionError(103, << >>))
       ELSE IF op[t].kind = "grid" THEN Return(t, BuildGrid(ret[t], CurGrid(t)))
       ELSE /\ lebedevs' = [lebedevs EXCEPT ![t] =
                    Append(@, BuildGrid(ret[t], CurGrid(t)))]
            /\ idx' = [idx EXCEPT ![t] = @ + 1]
            /\ ret' = [ret EXCEPT ![t] = NoTable]
            /\ pc' = [pc EXCEPT ![t] = "L232"]
            /\ UNCHANGED <<op, dsets, result, snap, retry>>
    /\ UNCHANGED <<files, shared>>

\* ------------------------------------------- TruncatedLebedevGrid.__init__
\* lines 229-230: the two asserts on the lists
CheckLists(t) ==
    /\ pc[t] = "L229"
    /\ IF Len(op[t].radgrids) # Len(op[t].precs) THEN Raise(t, AssertionError(229, << >>))
       ELSE IF ~(Len(op[t].precs) > 0) THEN Raise(t, AssertionError(230, << >>))
       ELSE Goto(t, "L232")
    /\ UNCHANGED <<files, shared>>

\* lines 231-234: the comprehension takes the next pair of zip, or ends
NextPair(t) ==
    /\ pc[t] = "L232"
    /\ IF idx[t] <= Len(op[t].precs) THEN Goto(t, "L90") ELSE Goto(t, "L240")
    /\ UNCHANGED <<files, shared>>

\* lines 235-244: the concatenations; the constructor returns
Concatenate(t) ==
    /\ pc[t] = "L240"
    /\ Return(t, BuildTruncated(lebedevs[t]))
    /\ UNCHANGED <<files, shared>>

\* ---------------------------------------------------------- specifications
InitWith(f) ==
    /\ files = f
    /\ caches = << >>
    /\ reads = << >>
    /\ writes = << >>
    /\ op = [t \in Threads |-> NoOp]
    /\ pc = [t \in Threads |-> "idle"]
    /\ idx = [t \in Threads |-> 0]
    /\ lebedevs = [t \in Threads |-> << >>]
    /\ dsets = [t \in Threads |-> NoTable]
    /\ ret = [t \in Threads |-> NoTable]
    /\ result = [t \in Threads |-> NoResult]
    /\ snap = [t \in Threads |-> << >>]
    /\ retry = [t \in Threads |-> FALSE]

Init == InitWith(SmallFiles)

\* threads that call LebedevLoader.load concurrently
Next ==
    \E t \in Threads :
        \/ CallLoad(t, LoadPrecs)
        \/ Discard(t)
        \/ CheckCache(t)
        \/ CheckExists(t)
        \/ LoadTxt(t)
        \/ Convert(t)
        \/ Store(t)
        \/ ReturnCached(t)

Spec == Init /\ [][Next]_vars

\* one thread making one call after another
SeqNext ==
    \E t \in MainThreads :
        \/ CallLoad(t, Precs)
        \/ CallLebedevGrid(t, RadGrids, Precs)
        \/ CallTruncated(t, SeqsUpTo(RadGrids, MaxList), SeqsUpTo(ListPrecs, MaxList))
        \/ Discard(t)
        \/ CheckCache(t)
        \/ CheckExists(t)
        \/ LoadTxt(t)
        \/ Convert(t)
        \/ Store(t)
        \/ ReturnCached(t)
        \/ CheckPrec(t)
        \/ Combine(t)
        \/ CheckLists(t)
        \/ NextPair(t)
        \/ Concatenate(t)

SeqSpec == Init /\ [][SeqNext]_vars

\* the calls of the docstring examples, on the precisions 3 and 5 they use, made
\* by one thread in any order
ExampleInit == InitWith(ExampleFiles)

ExampleNext ==
    \E t \in MainThreads :
        \/ CallLoad(t, {3, 5})
        \/ CallLebedevGrid(t, {ExGrid}, {3, 5})
        \/ CallTruncated(t, {<<ExGrid, ExGrid>>}, {<<3, 5>>})
        \/ Discard(t)
        \/ CheckCache(t)
        \/ CheckExists(t)
        \/ LoadTxt(t)
        \/ Convert(t)
        \/ Store(t)
        \/ ReturnCached(t)
        \/ CheckPrec(t)
        \/ Combine(t)
        \/ CheckLists(t)
        \/ NextPair(t)
        \/ Concatenate(t)

ExampleSpec == ExampleInit /\ [][ExampleNext]_vars

\* ------------------------------------------------------------------ claims
\* thread t has finished a top-level call of the given kind
Finished(t, kind) == pc[t] = "done" /\ op[t].kind = kind
Ok(t) == result[t].status = "ok"
Raised(t) == result[t].status = "raised" /\ result[t].value = NoValue

\* the error kinds of the specification, as the asserts that raise them
InvalidArgument(e) == e.type = "AssertionError" /\ e.line \in {90, 103, 229, 230}
ResourceNotFound(e, prec) == e = AssertionError(44, Fmt03d(prec))

HasFile(prec) == Fmt03d(prec) \in DOMAIN files
OddInRange(prec) == prec % 2 = 1 /\ prec >= 3 /\ prec <= 131

\* every entry other than prec's is as it was when t's call began
OthersUnchanged(t, prec) ==
    \A q \in (DOMAIN caches \cup DOMAIN snap[t]) \ {prec} :
        /\ q \in DOMAIN caches /\ q \in DOMAIN snap[t]
        /\ caches[q] = snap[t][q]

CacheUnchanged(t) ==
    /\ DOMAIN caches = DOMAIN snap[t]
    /\ \A q \in DOMAIN caches : caches[q] = snap[t][q]

\* t's call has read nothing from storage: every precision read so far was
\* read once, for an entry that was cached when the call began
NothingRead(t) == \A q \in DOMAIN reads : reads[q] = 1 /\ q \in DOMAIN snap[t]

\* C1: in a sequential series of calls every precision is read from storage at
\* most once; a cached precision has been read exactly once; a load that finds
\* its precision cached returns the cached table and leaves the cache and the
\* number of reads as they were, and a load that does not reads once and
\* returns what it cached.
C1_ReadAtMostOnce ==
    /\ \A p \in DOMAIN reads : reads[p] <= 1
    /\ \A p \in DOMAIN caches : Count(reads, p) = 1
    /\ \A t \in Threads :
        (Finished(t, "load") /\ Ok(t)) =>
            LET p == op[t].precs[1]
            IN  /\ p \in DOMAIN caches
                /\ result[t].value = caches[p]
                /\ IF p \in DOMAIN snap[t]
                   THEN /\ result[t].value = snap[t][p]
                        /\ CacheUnchanged(t)
                        /\ NothingRead(t)
                   ELSE OthersUnchanged(t, p)

\* a load that found its precision cached has returned
C1_Witness ==
    \E t \in Threads :
        /\ Finished(t, "load") /\ Ok(t)
        /\ op[t].precs[1] \in DOMAIN snap[t]
        /\ reads[op[t].precs[1]] = 1

\* C2: under every interleaving of concurrent loads each precision is read
\* from storage at most once and its cache entry is written at most once.
C2_AtomicGetOrInsert ==
    \A p \in LoadPrecs : Count(reads, p) <= 1 /\ Count(writes, p) <= 1

\* the first two columns of rows are those of stored times (pi/180) to the
\* power one, and the weights are those of stored
ConvertedOnce(rows, stored) ==
    /\ Len(rows) = Len(stored)
    /\ \A j \in 1..Len(stored) :
        /\ rows[j][3] = stored[j][3]
        /\ \A c \in {1, 2} :
            /\ rows[j][c][1] = stored[j][c][1]
            /\ stored[j][c][1] # 0 => rows[j][c][2] = stored[j][c][2] + 1

\* C3: in every reachable state of concurrent loads, every cached table and
\* every table a load has returned is the stored table with its two angle
\* columns converted from degrees to radians exactly once.
C3_ConvertedExactlyOnce ==
    /\ \A p \in DOMAIN caches : HasFile(p) /\ ConvertedOnce(caches[p], files[Fmt03d(p)])
    /\ \A t \in Threads :
        (Finished(t, "load") /\ Ok(t)) =>
            ConvertedOnce(result[t].value, files[Fmt03d(op[t].precs[1])])

\* the same precision has been read from storage and stored twice by racing
\* threads, and a load that found it cached has returned it as well
C3_Witness ==
    \E t \in Threads :
        \E u \in Threads \ {t} :
            /\ Finished(t, "load") /\ Ok(t)
            /\ Finished(u, "load") /\ Ok(u)
            /\ op[t].precs = op[u].precs
            /\ Count(reads, op[t].precs[1]) = 2
            /\ Count(writes, op[t].precs[1]) = 2
            /\ op[t].precs[1] \in DOMAIN snap[t]
            /\ \E j \in 1..Len(result[t].value) : result[t].value[j][1][2] = 1

\* the point of radius rad in the direction of a table row (phi, theta, weight)
Point(rad, row) ==
    << Mul(Mul(Num(rad), Sin(row[2])), Cos(row[1])),
       Mul(Mul(Num(rad), Sin(row[2])), Sin(row[1])),
       Mul(Num(rad), Cos(row[2])) >>

\* grid is the radius-major product of radgrid and the table rows
RadiusMajor(grid, radgrid, rows) ==
    LET nr == Len(radgrid.rgrid)
        nphitheta == Len(rows)
    IN  /\ Len(grid.xyz) = nr * nphitheta
        /\ Len(grid.dvolume) = nr * nphitheta
        /\ \A r \in 0..(nr - 1), j \in 0..(nphitheta - 1) :
            LET k == r * nphitheta + j
            IN  /\ grid.xyz[k + 1] = Point(radgrid.rgrid[r + 1], rows[j + 1])
                /\ grid.dvolume[k + 1] = Num(radgrid.dvolume[r + 1] * rows[j + 1][3])

\* C4: a constructed LebedevGrid has nr * nphitheta points and weights, and
\* entry k = r * nphitheta + j (counted from 0) is the point of radius r and
\* direction j, with weight dvol_radial[r] * weight_angular[j].
C4_RadiusMajorOrder ==
    \A t \in Threads :
        (Finished(t, "grid") /\ Ok(t)) =>
            /\ op[t].precs[1] \in DOMAIN caches
            /\ RadiusMajor(result[t].value, op[t].radgrids[1], caches[op[t].precs[1]])

\* a grid of at least two radii and two directions, with points that differ
C4_Witness ==
    \E t \in Threads :
        /\ Finished(t, "grid") /\ Ok(t)
        /\ Len(op[t].radgrids[1].rgrid) >= 2
        /\ Len(caches[op[t].precs[1]]) >= 2
        /\ result[t].value.xyz[2] # result[t].value.xyz[3]
        /\ result[t].value.dvolume[2] # result[t].value.dvolume[3]

\* the number of entries of the constituents before the i-th
RECURSIVE Offset(_, _)
Offset(grids, i) == IF i <= 1 THEN 0 ELSE Offset(grids, i - 1) + Len(grids[i - 1].xyz)

\* C5: a constructed TruncatedLebedevGrid holds one LebedevGrid per pair, in
\* list order, and its points and weights are the constituents' points and
\* weights one after the other in that order, index by index.
C5_ConcatenatedInOrder ==
    \A t \in Threads :
        (Finished(t, "trunc") /\ Ok(t)) =>
            LET v == result[t].value
                n == Len(op[t].precs)
            IN  /\ n > 0 /\ n = Len(op[t].radgrids)
                /\ Len(v.lebedevs) = n
                /\ \A i \in 1..n :
                    /\ op[t].precs[i] \in DOMAIN caches
                    /\ RadiusMajor(v.lebedevs[i], op[t].radgrids[i], caches[op[t].precs[i]])
                    /\ Len(v.lebedevs[i].dvolume) = Len(v.lebedevs[i].xyz)
                    /\ \A k \in 1..Len(v.lebedevs[i].xyz) :
                        /\ v.xyz[Offset(v.lebedevs, i) + k] = v.lebedevs[i].xyz[k]
                        /\ v.dvolume[Offset(v.lebedevs, i) + k] = v.lebedevs[i].dvolume[k]
                /\ Len(v.xyz) = Offset(v.lebedevs, n + 1)
                /\ Len(v.dvolume) = Len(v.xyz)

\* a composite of two grids that differ in radial grid, in precision and in length
C5_Witness ==
    \E t \in Threads :
        /\ Finished(t, "trunc") /\ Ok(t)
        /\ Len(op[t].precs) = 2
        /\ op[t].precs[1] # op[t].precs[2]
        /\ op[t].radgrids[1] # op[t].radgrids[2]
        /\ Len(result[t].value.lebedevs[1].xyz) # Len(result[t].value.lebedevs[2].xyz)

\* the composite of the docstring example has been built
ExampleBuilt(t) ==
    /\ Finished(t, "trunc") /\ Ok(t)
    /\ op[t].radgrids = <<ExGrid, ExGrid>>
    /\ op[t].precs = <<3, 5>>
    /\ Len(ExGrid.rgrid) = 100
    /\ Len(caches[3]) = 6
    /\ Len(caches[5]) = 14

\* C6, as claimed: the composite of two 100-radius grids with precisions 3
\* (6 directions) and 5 (14 directions) has length 1400.
C6_Length1400 ==
    \A t \in Threads : ExampleBuilt(t) => Len(result[t].value.xyz) = 1400

\* C6, amended: that composite has length 2000 = 100 * 6 + 100 * 14, points and
\* weights alike.
C6_Length2000 ==
    \A t \in Threads :
        ExampleBuilt(t) =>
            /\ Len(result[t].value.xyz) = 2000
            /\ Len(result[t].value.dvolume) = 2000

C6_Witness == \E t \in Threads : ExampleBuilt(t)

FirstFailing(o) ==
    LET bad == {i \in 1..Len(o.precs) :
                    \/ ~OddInRange(o.precs[i])
                    \/ ~HasFile(o.precs[i])
                    \/ o.radgrids[i].coord_type # "radial"}
    IN  IF bad = {} THEN 0 ELSE CHOOSE i \in bad : \A k \in bad : i <= k

\* C8: a load of an uncached precision without a stored table raises
\* ResourceNotFound for that precision and leaves the cache as it was, no
\* entry added and none changed; no precision without a stored table is ever
\* cached, so a later load of it checks again and fails again; and a grid
\* construction whose load fails so fails with the same error.
C8_ResourceNotFound ==
    /\ \A p \in DOMAIN caches : HasFile(p)
    /\ \A t \in Threads :
        /\ (Finished(t, "load") /\ ~HasFile(op[t].precs[1])) =>
                /\ Raised(t)
                /\ ResourceNotFound(result[t].error, op[t].precs[1])
                /\ CacheUnchanged(t)
        /\ (Finished(t, "grid") /\ OddInRange(op[t].precs[1]) /\ ~HasFile(op[t].precs[1])) =>
                /\ Raised(t)
                /\ ResourceNotFound(result[t].error, op[t].precs[1])
                /\ CacheUnchanged(t)
        /\ (Finished(t, "trunc") /\ Len(op[t].radgrids) = Len(op[t].precs)
                /\ FirstFailing(op[t]) # 0
                /\ OddInRange(op[t].precs[FirstFailing(op[t])])
                /\ ~HasFile(op[t].precs[FirstFailing(op[t])])) =>
                /\ Raised(t)
                /\ ResourceNotFound(result[t].error, op[t].precs[FirstFailing(op[t])])

\* a load failed for a precision whose load had failed in the call before,
\* with another precision cached meanwhile
C8_Witness ==
    \E t \in Threads :
        /\ Finished(t, "load")
        /\ retry[t]
        /\ Raised(t)
        /\ ResourceNotFound(result[t].error, op[t].precs[1])
        /\ DOMAIN caches # {}

\* C9: a TruncatedLebedevGrid construction with lists of equal, positive
\* length returns a composite exactly when every pair yields a grid; otherwise
\* it raises the error of the first pair that yields none, returns nothing,
\* and has not loaded the precision of any later pair.
C9_AllOrNothing ==
    \A t \in Threads :
        (Finished(t, "trunc") /\ Len(op[t].radgrids) = Len(op[t].precs)
            /\ Len(op[t].precs) > 0) =>
            LET i == FirstFailing(op[t])
            IN  IF i = 0
                THEN Ok(t) /\ Len(result[t].value.lebedevs) = Len(op[t].precs)
                ELSE /\ Raised(t)
                     /\ result[t].error.line =
                            IF ~OddInRange(op[t].precs[i]) THEN 90
                            ELSE IF ~HasFile(op[t].precs[i]) THEN 44
                            ELSE 103
                     /\ \A j \in (i + 1)..Len(op[t].precs) :
                            (/\ op[t].precs[j] \notin DOMAIN snap[t]
                             /\ \A k \in 1..i : op[t].precs[k] # op[t].precs[j])
                                => op[t].precs[j] \notin DOMAIN caches

\* the second pair failed, for its missing table, after the first had been
\* built from a table the call itself loaded; nothing was returned
C9_Witness ==
    \E t \in Threads :
        /\ Finished(t, "trunc")
        /\ Len(op[t].precs) = 2 /\ Len(op[t].radgrids) = 2
        /\ FirstFailing(op[t]) = 2
        /\ Raised(t)
        /\ result[t].error.line = 44
        /\ op[t].precs[1] \notin DOMAIN snap[t]
        /\ op[t].precs[1] \in DOMAIN caches

\* C10: a LebedevGrid construction with a valid, stored precision and a radial
\* grid whose coord_type is not "radial" raises, returns no grid, and leaves
\* that precision's converted table in the cache, loaded by the call itself
\* when it was not cached before; every other cache entry is as it was.
C10_CoordTypeCheckedAfterLoad ==
    \A t \in Threads :
        (Finished(t, "grid") /\ OddInRange(op[t].precs[1]) /\ HasFile(op[t].precs[1])
            /\ op[t].radgrids[1].coord_type # "radial") =>
            LET p == op[t].precs[1]
            IN  /\ Raised(t)
                /\ result[t].error = AssertionError(103, << >>)
                /\ p \in DOMAIN caches
                /\ ConvertedOnce(caches[p], files[Fmt03d(p)])
                /\ p \in DOMAIN snap[t] => caches[p] = snap[t][p]
                /\ Count(reads, p) = 1
                /\ OthersUnchanged(t, p)

\* the failed construction has put its precision into a cache that held
\* another precision already
C10_Witness ==
    \E t \in Threads :
        /\ Finished(t, "grid")
        /\ op[t].radgrids[1].coord_type # "radial"
        /\ Raised(t)
        /\ result[t].error.line = 103
        /\ op[t].precs[1] \notin DOMAIN snap[t]
        /\ op[t].precs[1] \in DOMAIN caches
        /\ DOMAIN snap[t] # {}

====
